---- MODULE Spec2Model ----
(***************************************************************************)
(* Model of spritesheetmaker/main.py: one run of generate_sprite_sheets.   *)
(* The run reads and decodes the sorted directory listing (read_images),   *)
(* splits the decoded frames into chunks (chunks), and for every chunk     *)
(* resolves the grid, composes the sheet frame by frame and saves it       *)
(* (generate_sprite_sheet_from_images_chunk).                              *)
(*                                                                         *)
(* Python's None is modelled as 0 for the integer options (argparse only   *)
(* lets through integers >= 1, and the code tests them by truthiness) and  *)
(* as the empty sequence for the name prefix.  Strings are sequences of    *)
(* one-character strings.  Positions and indexes are 0-based as in the     *)
(* code; TLA+ sequences are 1-based, so position p is element p + 1.       *)
(***************************************************************************)
EXTENDS Integers, Sequences, FiniteSets, TLC

\* ------------------------------------------------------------------ bounds
MaxFiles == 3          \* longest listing of mixed files
MaxUniformFiles == 11  \* longest listing of equal 1x1 frames
MaxArg == 2            \* largest explicit --rows, --columns, --chunkSize
MaxTick == 1           \* largest reading of the clock

\* ------------------------------------------------------- program constants
DEFAULT_COLUMNS_COUNT == 5

\* ------------------------------------------------------------------ inputs
\* A file of the source directory: whether Image.open decodes it, and, when
\* it does, the frame's width, height and pixel content c.
FileA == [ok |-> TRUE, w |-> 1, h |-> 1, c |-> 1]
FileB == [ok |-> TRUE, w |-> 1, h |-> 1, c |-> 2]
FileW == [ok |-> TRUE, w |-> 2, h |-> 1, c |-> 1]
FileH == [ok |-> TRUE, w |-> 1, h |-> 2, c |-> 1]
FileBad == [ok |-> FALSE, w |-> 0, h |-> 0, c |-> 0]
FileKinds == {FileA, FileB, FileW, FileH, FileBad}

Listings ==
    UNION {[1..n -> FileKinds] : n \in 0..MaxFiles}
    \cup {[i \in 1..n |-> FileA] : n \in (MaxFiles + 1)..MaxUniformFiles}

ArgValues == 0..MaxArg
Hero == <<"h", "e", "r", "o">>
Names == {<<>>, Hero}

\* ------------------------------------------------------------------- state
VARIABLES
    files,            \* sorted(source_dir.glob('*.*')), fixed for the run
    chunk_size,       \* options.chunkSize, 0 for None
    rows,             \* options.rows, 0 for None
    columns,          \* options.columns, 0 for None
    spritesheet_name, \* options.spritesheetName, <<>> for None
    pc,               \* "read", "begin", "place", "save", "done", "failed"
    err,              \* "none", or the exception that ended the run
    images,           \* read_images: frames decoded so far
    images_chunks,    \* generate_sprite_sheets: the chunks
    chunk_number,     \* ordinal of the chunk being composed, 0 before any
    max_rows,         \* resolved grid of the chunk being composed
    max_columns,
    tile_width,
    tile_height,
    sprite_sheet,     \* the canvas: pixel at every <<x, y>>
    pos,              \* position of the for loop in the chunk
    pastes,           \* history of sprite_sheet.paste calls
    saved,            \* history of sprite_sheet.save calls
    now               \* the UTC clock

vars == <<files, chunk_size, rows, columns, spritesheet_name, pc, err, images,
          images_chunks, chunk_number, max_rows, max_columns, tile_width,
          tile_height, sprite_sheet, pos, pastes, saved, now>>

inputs == <<files, chunk_size, rows, columns, spritesheet_name>>
locals == <<max_rows, max_columns, tile_width, tile_height, sprite_sheet, pos>>

Terminal == {"done", "failed"}

\* ----------------------------------------------------------------- helpers
Min(a, b) == IF a < b THEN a ELSE b

\* range(start, stop, step) for step >= 1, as a sequence.
Range(start, stop, step) ==
    LET hits == {i \in start..(stop - 1) : (i - start) % step = 0}
    IN  [k \in 1..Cardinality(hits) |-> start + (k - 1) * step]

\* values[lo:hi], Python's slice: hi is clipped to len(values).
Slice(values, lo, hi) == SubSeq(values, lo + 1, Min(hi, Len(values)))

\* A variant that leaves out a final chunk shorter than size.
chunks_full_only(values, size) ==
    LET starts == Range(0, Len(values) - size + 1, size)
    IN  [k \in 1..Len(starts) |->
            Slice(values, starts[k], starts[k] + size)]

\* chunks(values, chunk_size), for a chunk size >= 1.
chunks(values, size) ==
    LET starts == Range(0, Len(values), size)
    IN  [k \in 1..Len(starts) |->
            Slice(values, starts[k], starts[k] + size)]

\* A variant in which a file that does not decode is taken as a frame.
Decodes_always(f) == TRUE

\* Image.open(current_file) succeeds and getdata() loads the frame.
Decodes(f) == f.ok

\* A variant comparing frames by size and pixel content.
FrameEq_by_value(a, b) == a.w = b.w /\ a.h = b.h /\ a.c = b.c

\* a == b for two elements of images.  The elements are the core image
\* objects that im.getdata() returns, one new object per file; that type
\* defines no comparison, so == is the identity of the object.
FrameEq(a, b) == a.id = b.id

\* values.index(v): the 0-based position of the first element equal to v.
IndexOf(values, v) ==
    (CHOOSE j \in 1..Len(values) :
        /\ FrameEq(values[j], v)
        /\ \A k \in 1..(j - 1) : ~FrameEq(values[k], v)) - 1

\* A variant that rounds the row estimate down: floor for ceil.
MaxRows_floor(r, n) == IF r # 0 THEN r ELSE n \div DEFAULT_COLUMNS_COUNT

\* math.ceil(n / DEFAULT_COLUMNS_COUNT) unless rows is given.
MaxRows(r, n) ==
    IF r # 0 THEN r
    ELSE (n + DEFAULT_COLUMNS_COUNT - 1) \div DEFAULT_COLUMNS_COUNT

MaxColumns(c) == IF c # 0 THEN c ELSE DEFAULT_COLUMNS_COUNT

\* Pixels are <<content, x, y>> of the source frame; Blank is the zero pixel
\* of Image.new("RGBA", ...) and of a crop outside its source.
Blank == <<0, 0, 0>>

NoSheet == [xy \in {} |-> Blank]

\* Image.new("RGBA", (width, height)).
NewSheet(width, height) ==
    [xy \in (0..(width - 1)) \X (0..(height - 1)) |-> Blank]

\* Pixel <<px, py>> of frame.crop((0, 0, tile_width, tile_height)).
CropPixel(frame, px, py) ==
    IF px < frame.w /\ py < frame.h THEN <<frame.c, px, py>> ELSE Blank

\* sheet.paste(cropped, box): the box is clipped to the canvas.
Paste(sheet, frame, box) ==
    [xy \in DOMAIN sheet |->
        IF /\ box[1] <= xy[1] /\ xy[1] < box[3]
           /\ box[2] <= xy[2] /\ xy[2] < box[4]
        THEN CropPixel(frame, xy[1] - box[1], xy[2] - box[2])
        ELSE sheet[xy]]

\* The box of lines 83-89.
Box(frame_index, cols, tw, th) ==
    LET x1 == th * (frame_index % cols)
        y1 == tw * (frame_index \div cols)
    IN  <<x1, y1, x1 + tw, y1 + th>>

DigitChars == <<"0", "1", "2", "3", "4", "5", "6", "7", "8", "9">>

RECURSIVE DecStr(_)
\* "%d" % k for k >= 0.
DecStr(k) ==
    IF k < 10 THEN <<DigitChars[k + 1]>>
    ELSE DecStr(k \div 10) \o <<DigitChars[(k % 10) + 1]>>

\* A variant without the padding: "%d".
Fmt02d_unpadded(k) == DecStr(k)

\* "%02d" % k: padded with zeros on the left to at least two characters.
Fmt02d(k) ==
    LET s == DecStr(k) IN IF Len(s) < 2 THEN <<"0">> \o s ELSE s

PngExt == <<".", "p", "n", "g">>
StampPrefix == <<"s", "p", "r", "i", "t", "e", "s", "h", "e", "e", "t", "_">>

\* The file name of lines 93-96; the timestamp is written as the decimal
\* reading of the clock, which like strftime's format tells readings apart.
SheetFileName(name, k, t) ==
    IF name # <<>> THEN name \o <<"-">> \o Fmt02d(k) \o PngExt
    ELSE StampPrefix \o DecStr(t) \o PngExt

\* -------------------------------------------------------------------- Init
Init ==
    /\ files \in Listings
    /\ chunk_size \in ArgValues
    /\ rows \in ArgValues
    /\ columns \in ArgValues
    /\ spritesheet_name \in Names
    /\ pc = "read"
    /\ err = "none"
    /\ images = <<>>
    /\ images_chunks = <<>>
    /\ chunk_number = 0
    /\ max_rows = 0
    /\ max_columns = 0
    /\ tile_width = 0
    /\ tile_height = 0
    /\ sprite_sheet = NoSheet
    /\ pos = 0
    /\ pastes = <<>>
    /\ saved = <<>>
    /\ now = 0

\* ----------------------------------------------------------------- actions
\* read_images, one turn of the loop over the files: the file is decoded
\* and appended, or the run ends with RuntimeError.
ReadFile ==
    /\ pc = "read"
    /\ Len(images) < Len(files)
    /\ LET f == files[Len(images) + 1]
       IN  IF Decodes(f)
           THEN /\ images' = Append(images,
                        [id |-> Len(images) + 1, w |-> f.w, h |-> f.h, c |-> f.c])
                /\ UNCHANGED <<pc, err>>
           ELSE /\ pc' = "failed"
                /\ err' = "RuntimeError"
                /\ UNCHANGED images
    /\ UNCHANGED <<inputs, images_chunks, chunk_number, locals, pastes, saved, now>>

\* read_images after the loop, and generate_sprite_sheets up to its for
\* loop: the chunk size is resolved, the frames are chunked (range raises
\* ValueError on a step of 0), and an empty result ends the run.
ChunkImages ==
    /\ pc = "read"
    /\ Len(images) = Len(files)
    /\ LET images_count == Len(images)
           size == IF chunk_size = 0 THEN images_count ELSE chunk_size
       IN  IF size = 0
           THEN /\ pc' = "failed"
                /\ err' = "ValueError"
                /\ UNCHANGED <<images_chunks, chunk_number>>
           ELSE /\ images_chunks' = chunks(images, size)
                /\ err' = err
                /\ IF Len(images_chunks') = 0
                   THEN pc' = "done" /\ UNCHANGED chunk_number
                   ELSE pc' = "begin" /\ chunk_number' = 1
    /\ UNCHANGED <<inputs, images, locals, pastes, saved, now>>

\* generate_sprite_sheet_from_images_chunk up to its for loop: the grid,
\* the tile size of the first frame, the new canvas.
BeginChunk ==
    /\ pc = "begin"
    /\ LET chunk == images_chunks[chunk_number]
       IN  /\ max_columns' = MaxColumns(columns)
           /\ max_rows' = MaxRows(rows, Len(chunk))
           /\ tile_width' = chunk[1].w
           /\ tile_height' = chunk[1].h
           /\ sprite_sheet' = NewSheet(tile_width' * max_columns',
                                       tile_height' * max_rows')
    /\ pos' = 0
    /\ pc' = "place"
    /\ UNCHANGED <<inputs, err, images, images_chunks, chunk_number, pastes,
                   saved, now>>

\* One turn of the for loop over the chunk's frames: break, or paste.  The
\* loop ends after the last frame.
PlaceFrame ==
    /\ pc = "place"
    /\ LET chunk == images_chunks[chunk_number]
           frame == chunk[pos + 1]
           frame_index == IndexOf(chunk, frame)
           box == Box(frame_index, max_columns, tile_width, tile_height)
       IN  IF frame_index > max_rows * max_columns
           THEN /\ pc' = "save"
                /\ UNCHANGED <<sprite_sheet, pos, pastes>>
           ELSE /\ sprite_sheet' = Paste(sprite_sheet, frame, box)
                /\ pastes' = Append(pastes,
                        [chunk |-> chunk_number, pos |-> pos,
                         index |-> frame_index, box |-> box,
                         nsaved |-> Len(saved)])
                /\ pos' = pos + 1
                /\ pc' = IF pos' = Len(chunk) THEN "save" ELSE "place"
    /\ UNCHANGED <<inputs, err, images, images_chunks, chunk_number, max_rows,
                   max_columns, tile_width, tile_height, saved, now>>

\* A variant of the loop's advance that returns after the first sheet.
AdvanceChunk_return ==
    pc' = "done" /\ UNCHANGED chunk_number

\* generate_sprite_sheets, the for loop over the chunks: on to the next one,
\* or the end of the run.
AdvanceChunk ==
    IF chunk_number < Len(images_chunks)
    THEN pc' = "begin" /\ chunk_number' = chunk_number + 1
    ELSE pc' = "done" /\ UNCHANGED chunk_number

\* The sheet is named and saved; the clock is read when there is no prefix.
SaveSheet ==
    /\ pc = "save"
    /\ \E d \in 0..1 :
        /\ now + d <= MaxTick
        /\ IF spritesheet_name # <<>> THEN d = 0 ELSE TRUE
        /\ now' = now + d
    /\ saved' = Append(saved,
            [chunk |-> chunk_number,
             name |-> SheetFileName(spritesheet_name, chunk_number, now'),
             sheet |-> sprite_sheet])
    /\ AdvanceChunk
    /\ UNCHANGED <<inputs, err, images, images_chunks, locals, pastes>>

Next ==
    \/ ReadFile
    \/ ChunkImages
    \/ BeginChunk
    \/ PlaceFrame
    \/ SaveSheet

Spec == Init /\ [][Next]_vars

\* ------------------------------------------------------ claims: vocabulary
\* The chunk being composed, its capacity, and its paste calls so far.
Composing == pc \in {"place", "save"}
Chunk == images_chunks[chunk_number]
Capacity == max_rows * max_columns
ChunkPastes == {j \in 1..Len(pastes) : pastes[j].chunk = chunk_number}

\* read_images has returned.
Chunked == err = "none" /\ pc # "read"

RECURSIVE Concat(_)
Concat(ss) == IF ss = <<>> THEN <<>> ELSE Head(ss) \o Concat(Tail(ss))

\* q = ceil(n / c), said without division.
IsCeil(q, n, c) == q * c >= n /\ (q - 1) * c < n

DigitValue(ch) == CHOOSE d \in 0..9 : DigitChars[d + 1] = ch

RECURSIVE ParseNat(_)
ParseNat(s) ==
    IF s = <<>> THEN 0
    ELSE 10 * ParseNat(SubSeq(s, 1, Len(s) - 1)) + DigitValue(s[Len(s)])

AllDecode == \A i \in 1..Len(files) : files[i].ok

\* ------------------------------------------------------------------ claims
\* C1: for a non-empty frame sequence, the chunks concatenated in order are
\* the input sequence, every chunk is non-empty, and there are ceil(n / c)
\* chunks, c being chunkSize when given and n when unset (one chunk of all).
C1_ChunkingLossless ==
    (Chunked /\ Len(images) >= 1) =>
        LET n == Len(images)
            c == IF chunk_size >= 1 THEN chunk_size ELSE n
        IN  /\ Concat(images_chunks) = images
            /\ \A k \in 1..Len(images_chunks) : Len(images_chunks[k]) >= 1
            /\ IsCeil(Len(images_chunks), n, c)
            /\ chunk_size = 0 => images_chunks = <<images>>

C1_Witness ==
    /\ Chunked
    /\ Len(images) = 3
    /\ chunk_size = 2
    /\ Len(images_chunks) = 2
    /\ Len(images_chunks[2]) = 1

\* C2: given zero source frames the run completes normally with zero sheets
\* saved and no error, whether chunkSize is unset or given.
C2_EmptyRunCompletes ==
    (files = <<>> /\ pc \in Terminal) =>
        (pc = "done" /\ err = "none" /\ saved = <<>>)

\* C3: the frame at position i of the chunk is pasted at the rectangle
\* x1 = (i mod columns) * tileWidth, y1 = floor(i / columns) * tileHeight,
\* x2 = x1 + tileWidth, y2 = y1 + tileHeight.
C3_PlacementRectangle ==
    Composing =>
        \A j \in ChunkPastes :
            LET i == pastes[j].pos
                x1 == (i % max_columns) * tile_width
                y1 == (i \div max_columns) * tile_height
            IN  pastes[j].box = <<x1, y1, x1 + tile_width, y1 + tile_height>>

\* C4: when a chunk holds more frames than rows * columns, exactly the
\* frames at positions 0 .. rows*columns - 1 are pasted, and no later one.
C4_OverflowStopsAtCapacity ==
    (Composing /\ Len(Chunk) > Capacity) =>
        /\ \A j \in ChunkPastes : pastes[j].pos < Capacity
        /\ pc = "save" =>
            {pastes[j].pos : j \in ChunkPastes} = 0..(Capacity - 1)

\* C5: for a chunk whose frames all have the tile size and are at most
\* rows * columns, the composed canvas has size tileWidth*columns x
\* tileHeight*rows and shows, at every pixel of every frame's placement
\* rectangle, that frame's own pixel.
C5_RoundTrip ==
    (/\ pc = "save"
     /\ \A i \in 1..Len(Chunk) :
            Chunk[i].w = tile_width /\ Chunk[i].h = tile_height
     /\ Len(Chunk) <= Capacity) =>
        /\ DOMAIN sprite_sheet =
                (0..(tile_width * max_columns - 1))
                    \X (0..(tile_height * max_rows - 1))
        /\ {pastes[j].pos : j \in ChunkPastes} = 0..(Len(Chunk) - 1)
        /\ \A j \in ChunkPastes :
           \A px \in 0..(tile_width - 1), py \in 0..(tile_height - 1) :
                LET xy == <<pastes[j].box[1] + px, pastes[j].box[2] + py>>
                    frame == Chunk[pastes[j].pos + 1]
                IN  /\ xy \in DOMAIN sprite_sheet
                    /\ sprite_sheet[xy] = <<frame.c, px, py>>

\* C6: the resolved grid has columns = explicit columns if given, else 5,
\* and rows = explicit rows if given, else ceil(n / 5) for the chunk's n
\* frames, 5 being used also when explicit columns are given.
C6_GridResolved ==
    Composing =>
        /\ max_columns = (IF columns >= 1 THEN columns ELSE 5)
        /\ rows >= 1 => max_rows = rows
        /\ rows = 0 => IsCeil(max_rows, Len(Chunk), 5)

C6_Witness ==
    /\ Composing
    /\ columns = 2
    /\ rows = 0
    /\ Len(Chunk) = 6
    /\ max_rows = 2
    /\ max_columns = 2

\* C7: with a name prefix, the sheet of the k-th chunk is saved as
\* "{prefix}-{k padded with zeros to 2 digits}.png", and distinct chunks of
\* a run get distinct file names.
C7_PrefixedFileNames ==
    spritesheet_name # <<>> =>
        /\ \A k \in 1..Len(saved) :
            LET name == saved[k].name
                pre == Len(spritesheet_name)
                digits == SubSeq(name, pre + 2, Len(name) - 4)
            IN  /\ saved[k].chunk = k
                /\ SubSeq(name, 1, pre) = spritesheet_name
                /\ name[pre + 1] = "-"
                /\ SubSeq(name, Len(name) - 3, Len(name)) = <<".", "p", "n", "g">>
                /\ Len(digits) >= 2
                /\ \A i \in 1..Len(digits) :
                        \E d \in 0..9 : DigitChars[d + 1] = digits[i]
                /\ ParseNat(digits) = k
                /\ Len(digits) > 2 => digits[1] # "0"
        /\ \A k1, k2 \in 1..Len(saved) :
                k1 # k2 => saved[k1].name # saved[k2].name

C7_Witness ==
    /\ spritesheet_name = Hero
    /\ Len(saved) >= 10
    /\ saved[3].name = <<"h", "e", "r", "o", "-", "0", "3", ".", "p", "n", "g">>
    /\ saved[10].name = <<"h", "e", "r", "o", "-", "1", "0", ".", "p", "n", "g">>

\* C8: the index used to place a frame is its position in the chunk, also
\* when frames of the chunk are equal in value: a chunk of n <= rows*columns
\* frames occupies n pairwise distinct cells, position i taking cell i.
C8_IndexIsPosition ==
    /\ \A j \in 1..Len(pastes) : pastes[j].index = pastes[j].pos
    /\ (pc = "save" /\ Len(Chunk) <= Capacity) =>
        /\ Cardinality(ChunkPastes) = Len(Chunk)
        /\ {pastes[j].index : j \in ChunkPastes} = 0..(Len(Chunk) - 1)
        /\ \A j1, j2 \in ChunkPastes :
                j1 # j2 => pastes[j1].box # pastes[j2].box

C8_Witness ==
    /\ pc = "save"
    /\ Len(Chunk) = 3
    /\ Len(Chunk) <= Capacity
    /\ FrameEq_by_value(Chunk[1], Chunk[3])
    /\ FrameEq_by_value(Chunk[1], Chunk[2])
    /\ \E j \in ChunkPastes : pastes[j].pos = 2 /\ pastes[j].index = 2

\* C9: in a run over n >= 1 chunks in which every file decodes, chunks are
\* composed in the order 1..n, the sheet of chunk k is saved before any
\* frame of chunk k+1 is placed, a step is always possible until the run
\* has ended, and it ends without error after exactly n saves, a chunk that
\* overflowed its grid included.
C9_SequentialPipeline ==
    (AllDecode /\ files # <<>>) =>
        /\ err = "none"
        /\ \A k \in 1..Len(saved) : saved[k].chunk = k
        /\ \A j \in 1..Len(pastes) :
            /\ pastes[j].nsaved = pastes[j].chunk - 1
            /\ j > 1 => pastes[j - 1].chunk <= pastes[j].chunk
        /\ pc \in {"begin", "place", "save"} => Len(saved) = chunk_number - 1
        /\ pc \notin Terminal => ENABLED Next
        /\ pc \in Terminal =>
            /\ pc = "done"
            /\ Len(images_chunks) >= 1
            /\ Len(saved) = Len(images_chunks)

C9_Witness ==
    /\ pc = "done"
    /\ AllDecode
    /\ Len(images_chunks) = 2
    /\ Len(saved) = 2
    /\ Len(images_chunks[1]) = 2
    /\ rows = 1
    /\ columns = 1
    /\ Cardinality({j \in 1..Len(pastes) : pastes[j].chunk = 1}) = 2
    /\ \E j \in 1..Len(pastes) : pastes[j].chunk = 2

\* C10: if a source file fails to decode, the run ends in that error with no
\* frame placed and no sheet saved, wherever the file is in the listing and
\* whatever the chunkSize.
C10_DecodeFailureAborts ==
    /\ err = "RuntimeError" =>
        /\ pc = "failed"
        /\ images_chunks = <<>>
        /\ pastes = <<>>
        /\ saved = <<>>
    /\ ~AllDecode =>
        /\ pc \in {"read", "failed"}
        /\ pc \in Terminal => err = "RuntimeError"

C10_Witness ==
    /\ err = "RuntimeError"
    /\ chunk_size = 1
    /\ Len(files) = 3
    /\ files[1].ok
    /\ files[2].ok
    /\ ~files[3].ok
    /\ Len(images) = 2

====
